---- MODULE Spec2Model ----
(***************************************************************************)
(* gohttpbinder: binding of HTTP request data (query, header, route        *)
(* parameters, body) into a tagged destination struct.                     *)
(*                                                                         *)
(* Part 1 models the value coercer `bind`; part 2 the stage functions and  *)
(* the two pipelines, Binder.BindRequest and Compose/DefaultBinding.       *)
(*                                                                         *)
(* Text (raw values, header values, body members) is a sequence of         *)
(* one-character strings, so that parsing is computed character by         *)
(* character.  Keys, tags and media types are plain strings.               *)
(***************************************************************************)
EXTENDS Integers, Sequences, FiniteSets, TLC

(***************************************************************************)
(* Bounds of the model.                                                    *)
(***************************************************************************)
\* Longest raw value set drawn for one key.
MaxValues == 2

(***************************************************************************)
(* Errors.  NoErr is Go's nil error.  PanicIndex is not an error value but *)
(* the run-time panic of an out-of-range index; a call that panics does   *)
(* not return.                                                             *)
(***************************************************************************)
NoErr == "nil"
ErrSyntax == "strconv: invalid syntax"
ErrRange == "strconv: value out of range"
ErrBase64 == "base64: illegal data"
ErrNotPointer == "text unmarshaler type is not a pointer"
ErrInvalidKind == "invalid kind"
PanicIndex == "panic: index out of range"

IsPanic(e) == e = PanicIndex

(***************************************************************************)
(* strconv                                                                 *)
(***************************************************************************)
HexDigits == <<"0","1","2","3","4","5","6","7","8","9","a","b","c","d","e","f">>
HexDigitsUpper == <<"0","1","2","3","4","5","6","7","8","9","A","B","C","D","E","F">>

IsDigit(c, base) == \E i \in 1..base : HexDigits[i] = c \/ HexDigitsUpper[i] = c
DigitVal(c) == (CHOOSE i \in 1..16 : HexDigits[i] = c \/ HexDigitsUpper[i] = c) - 1

RECURSIVE DigitsValue(_, _)
DigitsValue(s, base) ==
    IF s = <<>> THEN 0
    ELSE DigitsValue(SubSeq(s, 1, Len(s) - 1), base) * base + DigitVal(s[Len(s)])

RECURSIVE StripZeros(_)
StripZeros(s) ==
    IF s # <<>> /\ s[1] = "0" THEN StripZeros(Tail(s)) ELSE s

RECURSIVE LexLeq(_, _)
LexLeq(a, b) ==
    IF a = <<>> THEN TRUE
    ELSE IF DigitVal(a[1]) # DigitVal(b[1]) THEN DigitVal(a[1]) < DigitVal(b[1])
    ELSE LexLeq(Tail(a), Tail(b))

\* a <= b for two digit strings of one base, compared without evaluating them
\* (the limits of 64-bit integers are beyond the checker's own integers).
LenLexLeq(x, y) == Len(x) < Len(y) \/ (Len(x) = Len(y) /\ LexLeq(x, y))
DigitsLeq(a, b) == LenLexLeq(StripZeros(a), StripZeros(b))

\* 2^64 - 1, 2^63 - 1 and 2^63 as digit strings in base 10 and 16.
MaxUint64Digits(base) ==
    IF base = 10
    THEN <<"1","8","4","4","6","7","4","4","0","7","3","7","0","9","5","5","1","6","1","5">>
    ELSE <<"f","f","f","f","f","f","f","f","f","f","f","f","f","f","f","f">>
MaxInt64Digits(base) ==
    IF base = 10
    THEN <<"9","2","2","3","3","7","2","0","3","6","8","5","4","7","7","5","8","0","7">>
    ELSE <<"7","f","f","f","f","f","f","f","f","f","f","f","f","f","f","f">>
MinInt64Digits(base) ==
    IF base = 10
    THEN <<"9","2","2","3","3","7","2","0","3","6","8","5","4","7","7","5","8","0","8">>
    ELSE <<"8","0","0","0","0","0","0","0","0","0","0","0","0","0","0","0">>

\* strconv.ParseUint(s, base, 64): digits only, no sign.
ParseUint(s, base) ==
    IF s = <<>> \/ \E i \in 1..Len(s) : ~IsDigit(s[i], base)
    THEN [val |-> 0, err |-> ErrSyntax]
    ELSE IF ~DigitsLeq(s, MaxUint64Digits(base))
    THEN [val |-> 0, err |-> ErrRange]
    ELSE [val |-> DigitsValue(s, base), err |-> NoErr]

\* strconv.ParseInt(s, base, 64): an optional sign, then digits.
ParseSigned(neg, digits, base) ==
    IF digits = <<>> \/ \E i \in 1..Len(digits) : ~IsDigit(digits[i], base)
    THEN [val |-> 0, err |-> ErrSyntax]
    ELSE IF ~DigitsLeq(digits, IF neg THEN MinInt64Digits(base) ELSE MaxInt64Digits(base))
    THEN [val |-> 0, err |-> ErrRange]
    ELSE [val |-> (IF neg THEN 0 - 1 ELSE 1) * DigitsValue(digits, base), err |-> NoErr]

HasSign(s) == s # <<>> /\ s[1] \in {"+", "-"}
IsNegative(s) == s # <<>> /\ s[1] = "-"
Unsigned(s) == IF HasSign(s) THEN Tail(s) ELSE s

ParseInt(s, base) == ParseSigned(IsNegative(s), Unsigned(s), base)

\* strconv.ParseBool: the accepted spellings.
TrueTokens == { <<"1">>, <<"t">>, <<"T">>, <<"T","R","U","E">>, <<"t","r","u","e">>,
                <<"T","r","u","e">> }
FalseTokens == { <<"0">>, <<"f">>, <<"F">>, <<"F","A","L","S","E">>,
                 <<"f","a","l","s","e">>, <<"F","a","l","s","e">> }
ParseBool(s) ==
    IF s \in TrueTokens THEN [val |-> TRUE, err |-> NoErr]
    ELSE IF s \in FalseTokens THEN [val |-> FALSE, err |-> NoErr]
    ELSE [val |-> FALSE, err |-> ErrSyntax]

\* strconv.ParseFloat(s, 64) on plain decimals [sign] digits [. digits]:
\* the value is mant / 10^frac with trailing zeros of the fraction dropped.
RECURSIVE DropTrailingZeros(_)
DropTrailingZeros(s) ==
    IF s # <<>> /\ s[Len(s)] = "0" THEN DropTrailingZeros(SubSeq(s, 1, Len(s) - 1)) ELSE s

Decimal(neg, whole, frac) ==
    [mant |-> (IF neg THEN 0 - 1 ELSE 1) * DigitsValue(whole \o frac, 10),
     frac |-> Len(frac), err |-> NoErr]

ParseDecimal(neg, body, dots) ==
    IF \/ Cardinality(dots) > 1
       \/ Len(body) - Cardinality(dots) = 0
       \/ \E i \in 1..Len(body) : i \notin dots /\ ~IsDigit(body[i], 10)
    THEN [mant |-> 0, frac |-> 0, err |-> ErrSyntax]
    ELSE IF dots = {} THEN Decimal(neg, body, <<>>)
    ELSE \* exactly one dot
         Decimal(neg, SubSeq(body, 1, (CHOOSE i \in dots : TRUE) - 1),
                 DropTrailingZeros(SubSeq(body, (CHOOSE i \in dots : TRUE) + 1, Len(body))))

Dots(body) == {i \in 1..Len(body) : body[i] = "."}

ParseFloat(s) == ParseDecimal(IsNegative(s), Unsigned(s), Dots(Unsigned(s)))

(***************************************************************************)
(* encoding/base64, StdEncoding.DecodeString: groups of four characters   *)
(* of the standard alphabet, padded with "=" in the last group only.      *)
(***************************************************************************)
B64Alphabet ==
    <<"A","B","C","D","E","F","G","H","I","J","K","L","M","N","O","P",
      "Q","R","S","T","U","V","W","X","Y","Z","a","b","c","d","e","f",
      "g","h","i","j","k","l","m","n","o","p","q","r","s","t","u","v",
      "w","x","y","z","0","1","2","3","4","5","6","7","8","9","+","/">>

IsB64(c) == \E i \in 1..64 : B64Alphabet[i] = c
B64Val(c) == (CHOOSE i \in 1..64 : B64Alphabet[i] = c) - 1

\* The bytes of one group of four characters, the last `pad` of them padding.
Quantum(c1, c2, c3, c4, pad) ==
    SubSeq(<<(c1 * 4 + c2 \div 16) % 256, (c2 * 16 + c3 \div 4) % 256, (c3 * 64 + c4) % 256>>,
           1, 3 - pad)

B64Pad(c) == IF c = "=" THEN 0 ELSE B64Val(c)

\* The padding of the group of four characters starting s: 0, 1 or 2 characters,
\* or -1 when the group is malformed.  Padding may only end the input.
Padding(s) ==
    IF Len(s) < 4 \/ ~IsB64(s[1]) \/ ~IsB64(s[2]) THEN 0 - 1
    ELSE IF IsB64(s[3]) /\ IsB64(s[4]) THEN 0
    ELSE IF Len(s) = 4 /\ IsB64(s[3]) /\ s[4] = "=" THEN 1
    ELSE IF Len(s) = 4 /\ s[3] = "=" /\ s[4] = "=" THEN 2
    ELSE 0 - 1

RECURSIVE DecodeGroups(_)
DecodeGroups(s) ==
    IF s = <<>> THEN <<>>
    ELSE Quantum(B64Val(s[1]), B64Val(s[2]), B64Pad(s[3]), B64Pad(s[4]), Padding(s))
         \o DecodeGroups(SubSeq(s, 5, Len(s)))

RECURSIVE WellPadded(_)
WellPadded(s) ==
    s = <<>> \/ (Padding(s) >= 0 /\ WellPadded(SubSeq(s, 5, Len(s))))

DecodeString(s) ==
    IF WellPadded(s) THEN [bytes |-> DecodeGroups(s), err |-> NoErr]
    ELSE [bytes |-> <<>>, err |-> ErrBase64]

(***************************************************************************)
(* Types of destination fields (reflect.Type) and their values.            *)
(*   <<"string">>  <<"int", bits>>  <<"uint", bits>>  <<"bool">>           *)
(*   <<"float", bits>>  <<"ptr", elem>>  <<"slice", elem>>  <<"struct">>   *)
(*   <<"HexInt64">>   a named int64 whose pointer implements               *)
(*                    encoding.TextUnmarshaler (and the value MarshalText) *)
(*   <<"ValueText">>  a named non-pointer type whose UnmarshalText has a   *)
(*                    value receiver                                       *)
(* []byte is []uint8: <<"slice", <<"uint", 8>>>>.                          *)
(***************************************************************************)
StringT == <<"string">>
IntT(bits) == <<"int", bits>>
UintT(bits) == <<"uint", bits>>
BoolT == <<"bool">>
FloatT(bits) == <<"float", bits>>
PtrT(elem) == <<"ptr", elem>>
SliceT(elem) == <<"slice", elem>>
StructT == <<"struct">>
HexInt64T == <<"HexInt64">>
ValueTextT == <<"ValueText">>
BytesT == SliceT(UintT(8))

Kind(t) == t[1]
Elem(t) == t[2]
Bits(t) == t[2]

IsBytes(t) == Kind(t) = "slice" /\ Kind(Elem(t)) = "uint" /\ Bits(Elem(t)) = 8

\* outType.AssignableTo(textUnmarshalerType): UnmarshalText is in the type's
\* own method set.
AssignableToTextUnmarshaler(t) ==
    \/ Kind(t) = "ValueText"
    \/ Kind(t) = "ptr" /\ Kind(Elem(t)) = "HexInt64"

\* reflect.PtrTo(outType).AssignableTo(textUnmarshalerType)
PtrToAssignableToTextUnmarshaler(t) ==
    Kind(t) \in {"HexInt64", "ValueText"}

\* Values.  A nil pointer and a nil slice are NilV.
StrV(s) == [s |-> s]
IntV(n) == [i |-> n]
UintV(n) == [u |-> n]
BoolV(b) == [b |-> b]
FloatV(m, f) == [mant |-> m, frac |-> f]
HexV(n) == [hex |-> n]
PtrV(v) == [ptr |-> v]
SliceV(es) == [elems |-> es]
NilV == [nil |-> TRUE]
StructV == [struct |-> TRUE]
ValueTextV == [valuetext |-> TRUE]

IsNil(v) == v = NilV

\* The zero value of a type.
Zero(t) ==
    CASE Kind(t) = "string" -> StrV(<<>>)
      [] Kind(t) = "int" -> IntV(0)
      [] Kind(t) = "uint" -> UintV(0)
      [] Kind(t) = "bool" -> BoolV(FALSE)
      [] Kind(t) = "float" -> FloatV(0, 0)
      [] Kind(t) = "HexInt64" -> HexV(0)
      [] Kind(t) = "ValueText" -> ValueTextV
      [] Kind(t) = "struct" -> StructV
      [] OTHER -> NilV

\* Conversion of a 64-bit integer to the field's width, as reflect's SetInt and
\* SetUint store it.  Widths of 32 and 64 bits exceed every value of the model.
NarrowInt(n, bits) ==
    IF bits >= 32 THEN n
    ELSE LET m == 2 ^ bits
             h == 2 ^ (bits - 1)
         IN  ((n + h) % m) - h
NarrowUint(n, bits) ==
    IF bits >= 32 THEN n ELSE n % (2 ^ bits)

\* Mutant of HexUnmarshalText: the text is parsed in base 10.
HexUnmarshalTextDecimal(text) == ParseInt(text, 10)

\* strconv.FormatInt(n, base): lower-case digits, "-" before a negative number.
RECURSIVE FormatUint(_, _)
FormatUint(n, base) ==
    IF n < base THEN <<HexDigits[n + 1]>>
    ELSE Append(FormatUint(n \div base, base), HexDigits[(n % base) + 1])

FormatInt(n, base) ==
    IF n < 0 THEN <<"-">> \o FormatUint(0 - n, base) ELSE FormatUint(n, base)

\* HexInt64.MarshalText: strconv.FormatInt(int64(int), 16).
HexMarshalText(n) == FormatInt(n, 16)

\* HexInt64.UnmarshalText: strconv.ParseInt(text, 16, 64).
HexUnmarshalText(text) == ParseInt(text, 16)

\* "no value": len(values) == 0 || values[0] == ""
NoValue(values) == Len(values) = 0 \/ values[1] = <<>>

(***************************************************************************)
(* bind(outValue, values).  The result is the field's value after the call *)
(* and the error returned: [val, err].                                     *)
(***************************************************************************)
RECURSIVE bind(_, _, _)

\* The field after a conversion that gave val with error e: a failed conversion
\* returns before the field is set.
Stored(prior, val, e) ==
    IF e # NoErr THEN [val |-> prior, err |-> e] ELSE [val |-> val, err |-> NoErr]

StoredPtrHex(prior, r) == Stored(prior, PtrV(HexV(r.val)), r.err)
StoredHex(prior, r) == Stored(prior, HexV(r.val), r.err)
StoredBytes(prior, r) ==
    Stored(prior, SliceV([k \in 1..Len(r.bytes) |-> UintV(r.bytes[k])]), r.err)
\* Mutant of StoredInt: a value outside the field's width is a range error, as if
\* the text had been parsed with the field's bit size.
StoredIntSized(prior, r, bits) ==
    IF r.err = NoErr /\ NarrowInt(r.val, bits) # r.val
    THEN [val |-> prior, err |-> ErrRange]
    ELSE Stored(prior, IntV(NarrowInt(r.val, bits)), r.err)

StoredInt(prior, r, bits) == Stored(prior, IntV(NarrowInt(r.val, bits)), r.err)
StoredUint(prior, r, bits) == Stored(prior, UintV(NarrowUint(r.val, bits)), r.err)
StoredBool(prior, r) == Stored(prior, BoolV(r.val), r.err)
StoredFloat(prior, r) == Stored(prior, FloatV(r.mant, r.frac), r.err)
StoredPtr(prior, r) == Stored(prior, PtrV(r.val), r.err)
StoredSlice(prior, r) == Stored(prior, SliceV(r.elems), r.err)

\* outType itself implements TextUnmarshaler.
bindTextUnmarshaler(t, prior, values) ==
    IF Kind(t) # "ptr" THEN [val |-> prior, err |-> ErrNotPointer]
    ELSE IF NoValue(values) THEN [val |-> prior, err |-> NoErr]
    ELSE StoredPtrHex(prior, HexUnmarshalText(values[1]))

\* *outType implements TextUnmarshaler.
bindPtrToTextUnmarshaler(t, prior, values) ==
    IF NoValue(values) THEN [val |-> prior, err |-> NoErr]
    ELSE StoredHex(prior, HexUnmarshalText(values[1]))

\* outType is []byte: values[0] is read without a length check.
bindBytes(t, prior, values) ==
    IF Len(values) = 0 THEN [val |-> prior, err |-> PanicIndex]
    ELSE StoredBytes(prior, DecodeString(values[1]))

bindString(t, prior, values) ==
    IF NoValue(values) THEN [val |-> prior, err |-> NoErr]
    ELSE [val |-> StrV(values[1]), err |-> NoErr]

bindInt(t, prior, values) ==
    IF NoValue(values) THEN [val |-> prior, err |-> NoErr]
    ELSE StoredInt(prior, ParseInt(values[1], 10), Bits(t))

bindUint(t, prior, values) ==
    IF NoValue(values) THEN [val |-> prior, err |-> NoErr]
    ELSE StoredUint(prior, ParseUint(values[1], 10), Bits(t))

bindBool(t, prior, values) ==
    IF NoValue(values) THEN [val |-> prior, err |-> NoErr]
    ELSE StoredBool(prior, ParseBool(values[1]))

bindFloat(t, prior, values) ==
    IF NoValue(values) THEN [val |-> prior, err |-> NoErr]
    ELSE StoredFloat(prior, ParseFloat(values[1]))

\* Mutant of bindPtr: an empty first value is not taken for "no value", the pointee
\* is allocated for it.
bindPtrAlways(t, prior, values) ==
    IF Len(values) = 0 THEN [val |-> prior, err |-> NoErr]
    ELSE StoredPtr(prior, bind(Elem(t), Zero(Elem(t)), values))

bindPtr(t, prior, values) ==
    IF NoValue(values) THEN [val |-> prior, err |-> NoErr]
    ELSE StoredPtr(prior, bind(Elem(t), Zero(Elem(t)), values))

\* The loop of the slice case over values[from..]: the elements bound so far
\* and the first error.
\* r is the element bound at this index, rest the loop over the later ones.
ElemThen(r, rest) ==
    IF r.err # NoErr THEN [elems |-> <<>>, err |-> r.err]
    ELSE [elems |-> <<r.val>> \o rest.elems, err |-> rest.err]

RECURSIVE bindElems(_, _, _)
bindElems(et, values, from) ==
    IF from > Len(values) THEN [elems |-> <<>>, err |-> NoErr]
    ELSE ElemThen(bind(et, Zero(et), <<values[from]>>), bindElems(et, values, from + 1))

\* Mutant of bindSlice: no values leave the field as it was.
bindSliceSkippingEmpty(t, prior, values) ==
    IF Len(values) = 0 THEN [val |-> prior, err |-> NoErr]
    ELSE StoredSlice(prior, bindElems(Elem(t), values, 1))

\* Mutant of bindSlice: the elements bound before an error are stored.
StoredSlicePartly(prior, r) == [val |-> SliceV(r.elems), err |-> r.err]
bindSlicePartly(t, prior, values) ==
    StoredSlicePartly(prior, bindElems(Elem(t), values, 1))

bindSlice(t, prior, values) ==
    StoredSlice(prior, bindElems(Elem(t), values, 1))

bind(t, prior, values) ==
    IF AssignableToTextUnmarshaler(t) THEN bindTextUnmarshaler(t, prior, values)
    ELSE IF PtrToAssignableToTextUnmarshaler(t) THEN bindPtrToTextUnmarshaler(t, prior, values)
    ELSE IF IsBytes(t) THEN bindBytes(t, prior, values)
    ELSE CASE Kind(t) = "string" -> bindString(t, prior, values)
           [] Kind(t) = "int" -> bindInt(t, prior, values)
           [] Kind(t) = "uint" -> bindUint(t, prior, values)
           [] Kind(t) = "bool" -> bindBool(t, prior, values)
           [] Kind(t) = "float" -> bindFloat(t, prior, values)
           [] Kind(t) = "ptr" -> bindPtr(t, prior, values)
           [] Kind(t) = "slice" -> bindSlice(t, prior, values)
           [] OTHER -> [val |-> prior, err |-> ErrInvalidKind]

(***************************************************************************)
(* mime.ParseMediaType and textproto.CanonicalMIMEHeaderKey                *)
(***************************************************************************)
UpperLetters == <<"A","B","C","D","E","F","G","H","I","J","K","L","M",
                  "N","O","P","Q","R","S","T","U","V","W","X","Y","Z">>
LowerLetters == <<"a","b","c","d","e","f","g","h","i","j","k","l","m",
                  "n","o","p","q","r","s","t","u","v","w","x","y","z">>

ToLower(c) ==
    IF \E i \in 1..26 : UpperLetters[i] = c
    THEN LowerLetters[CHOOSE i \in 1..26 : UpperLetters[i] = c]
    ELSE c

RECURSIVE TrimSpace(_)
TrimSpace(s) ==
    IF s # <<>> /\ s[1] = " " THEN TrimSpace(Tail(s))
    ELSE IF s # <<>> /\ s[Len(s)] = " " THEN TrimSpace(SubSeq(s, 1, Len(s) - 1))
    ELSE s

ErrNoMediaType == "mime: no media type"
ErrInvalidMediaParameter == "mime: invalid media parameter"

\* mime.ParseMediaType(v): the text before the first ";", trimmed and in lower
\* case.  A parameter without "=" is ErrInvalidMediaParameter, returned together
\* with the media type.
MediaType(base, rest) ==
    IF base = <<>> THEN [mediatype |-> <<>>, err |-> ErrNoMediaType]
    ELSE [mediatype |-> [i \in 1..Len(base) |-> ToLower(base[i])],
          err |-> IF rest # <<>> /\ ~\E i \in 1..Len(rest) : rest[i] = "="
                  THEN ErrInvalidMediaParameter ELSE NoErr]

\* The index of the first ";" of v, or Len(v) + 1.
FirstSemicolon(v) ==
    IF \E i \in 1..Len(v) : v[i] = ";"
    THEN CHOOSE i \in 1..Len(v) : v[i] = ";" /\ \A j \in 1..(i - 1) : v[j] # ";"
    ELSE Len(v) + 1

SplitMediaType(v, cut) ==
    MediaType(TrimSpace(SubSeq(v, 1, cut - 1)), TrimSpace(SubSeq(v, cut + 1, Len(v))))

ParseMediaType(v) == SplitMediaType(v, FirstSemicolon(v))

ApplicationJSON == <<"a","p","p","l","i","c","a","t","i","o","n","/","j","s","o","n">>
ApplicationXML == <<"a","p","p","l","i","c","a","t","i","o","n","/","x","m","l">>

\* textproto.CanonicalMIMEHeaderKey on the header tags of the model.
CanonicalMIMEHeaderKey(tag) ==
    CASE tag = "content-type" -> "Content-Type"
      [] tag = "x-h1" -> "X-H1"
      [] tag = "x-h2" -> "X-H2"
      [] OTHER -> tag

(***************************************************************************)
(* The request (net/http.Request as the binder reads it):                  *)
(*   method, header (canonical key -> values), query (key -> values),      *)
(*   body.  The body is a stream holding either text that is not JSON or   *)
(*   a JSON object whose members are strings: [syntaxOK, members].         *)
(* A destination field: [type, json, header, query, param]; a tag of ""    *)
(* is no tag; json is the member name encoding/json resolves to the field. *)
(***************************************************************************)
MethodGet == "GET"
MethodPost == "POST"

\* req.Header.Get("content-type")
ContentType(rq) ==
    IF rq.header["Content-Type"] = <<>> THEN <<>> ELSE rq.header["Content-Type"][1]

\* req.URL.Query()[key], req.Header[key]: absent keys give no values.
QueryValues(rq, key) == IF key \in DOMAIN rq.query THEN rq.query[key] ELSE <<>>
HeaderValues(rq, key) == IF key \in DOMAIN rq.header THEN rq.header[key] ELSE <<>>

(***************************************************************************)
(* Body decoders.  A decoder is [name, accepts]: Match parses the content  *)
(* type and accepts the media types of `accepts`.                          *)
(***************************************************************************)
ErrJSONSyntax == "json: invalid character"
ErrJSONType == "json: cannot unmarshal string into Go struct field"

JSONBodyDecoder == [name |-> "JSONBodyDecoder", accepts |-> {ApplicationJSON}]
XMLBodyDecoder == [name |-> "XMLBodyDecoder", accepts |-> {ApplicationXML}]

\* JSONBodyDecoder.Match
Accepts(decoder, r) == IF r.err # NoErr THEN FALSE ELSE r.mediatype \in decoder.accepts
Match(decoder, rq) == Accepts(decoder, ParseMediaType(ContentType(rq)))

\* encoding/json storing a JSON string into a field of type t.
JSONStore(t, prior, text) ==
    IF AssignableToTextUnmarshaler(t) THEN bindTextUnmarshaler(t, prior, <<text>>)
    ELSE IF PtrToAssignableToTextUnmarshaler(t) THEN bindPtrToTextUnmarshaler(t, prior, <<text>>)
    ELSE IF IsBytes(t) THEN bindBytes(t, prior, <<text>>)
    ELSE IF Kind(t) = "string" THEN [val |-> StrV(text), err |-> NoErr]
    ELSE [val |-> prior, err |-> ErrJSONType]

\* json.Decoder.Decode into the struct, fields i..: a member that cannot be stored
\* leaves its field and is remembered as the error; the other members are stored.
RECURSIVE JSONDecodeFields(_, _, _, _)
FirstError(e, rest) == [out |-> rest.out, err |-> IF e # NoErr THEN e ELSE rest.err]
JSONStoreThen(r, body, flds, o, i) ==
    FirstError(r.err, JSONDecodeFields(body, flds, [o EXCEPT ![i] = r.val], i + 1))

JSONDecodeFields(body, flds, o, i) ==
    IF i > Len(flds) THEN [out |-> o, err |-> NoErr]
    ELSE IF flds[i].json \notin DOMAIN body.members
    THEN JSONDecodeFields(body, flds, o, i + 1)
    ELSE JSONStoreThen(JSONStore(flds[i].type, o[i], body.members[flds[i].json]),
                       body, flds, o, i)

\* JSONBodyDecoder.DecodeBody
DecodeBody(decoder, body, flds, o) ==
    IF ~body.syntaxOK THEN [out |-> o, err |-> ErrJSONSyntax]
    ELSE JSONDecodeFields(body, flds, o, 1)

(***************************************************************************)
(* The field extractors.  Each walks the fields in declaration order from  *)
(* field i and stops at the first error: [out, err].                       *)
(***************************************************************************)
\* A field's coercion r stored into field i of o: [out, err].
SetField(o, i, r) == [out |-> [o EXCEPT ![i] = r.val], err |-> r.err]

RECURSIVE bindQueryFrom(_, _, _, _)

\* Mutant of bindQueryNext: the loop goes on after a field's error and returns the
\* first error at the end.
KeepError(e, rest) == [out |-> rest.out, err |-> IF e # NoErr THEN e ELSE rest.err]
bindQueryNextContinuing(rq, flds, r, i) ==
    KeepError(r.err, bindQueryFrom(rq, flds, r.out, i + 1))

bindQueryNext(rq, flds, r, i) ==
    IF r.err # NoErr THEN r ELSE bindQueryFrom(rq, flds, r.out, i + 1)

bindQueryFrom(rq, flds, o, i) ==
    IF i > Len(flds) THEN [out |-> o, err |-> NoErr]
    ELSE IF flds[i].query = "" THEN bindQueryFrom(rq, flds, o, i + 1)
    ELSE bindQueryNext(rq, flds,
             SetField(o, i, bind(flds[i].type, o[i], QueryValues(rq, flds[i].query))), i)

bindQuery(rq, flds, o) == bindQueryFrom(rq, flds, o, 1)

RECURSIVE bindHeaderFrom(_, _, _, _)
bindHeaderNext(rq, flds, r, i) ==
    IF r.err # NoErr THEN r ELSE bindHeaderFrom(rq, flds, r.out, i + 1)

bindHeaderFrom(rq, flds, o, i) ==
    IF i > Len(flds) THEN [out |-> o, err |-> NoErr]
    ELSE IF flds[i].header = "" THEN bindHeaderFrom(rq, flds, o, i + 1)
    ELSE bindHeaderNext(rq, flds,
             SetField(o, i, bind(flds[i].type, o[i],
                                 HeaderValues(rq, CanonicalMIMEHeaderKey(flds[i].header)))), i)

bindHeader(rq, flds, o) == bindHeaderFrom(rq, flds, o, 1)

\* paramExtractor is the caller's function from parameter names to text.
RECURSIVE bindParamFrom(_, _, _, _)
bindParamNext(paramExtractor, flds, r, i) ==
    IF r.err # NoErr THEN r ELSE bindParamFrom(paramExtractor, flds, r.out, i + 1)

bindParamFrom(paramExtractor, flds, o, i) ==
    IF i > Len(flds) THEN [out |-> o, err |-> NoErr]
    ELSE IF flds[i].param = "" THEN bindParamFrom(paramExtractor, flds, o, i + 1)
    ELSE bindParamNext(paramExtractor, flds,
             SetField(o, i, bind(flds[i].type, o[i], <<paramExtractor[flds[i].param]>>)), i)

bindParam(paramExtractor, flds, o) == bindParamFrom(paramExtractor, flds, o, 1)

(***************************************************************************)
(* State.                                                                  *)
(***************************************************************************)
VARIABLES
    api,        \* the entry point called: "BindRequest", "Compose" or "bind"
    options,    \* bindOptions of the Binder, and the stage list of Compose
    fields,     \* the destination struct's field declarations
    req,        \* the request
    out,        \* the destination struct: the value of each field
    pc,         \* position in the call
    stage,      \* Compose: index of the next stage function
    err,        \* the error the call returns (or the panic that ends it)
    closed,     \* number of Close calls on req.Body
    log,        \* the calls made so far, in order, with the error each returned
    entry       \* `out` as it was when the latest stage was entered

vars == <<api, options, fields, req, out, pc, stage, err, closed, log, entry>>

Call(op, arg, e) == [op |-> op, arg |-> arg, err |-> e]

ErrValidation == "validation error"

(***************************************************************************)
(* Inputs of the pipelines.                                                *)
(***************************************************************************)
One == <<"1">>
MQ == <<"M","Q","=","=">>
TextPlain == <<"t","e","x","t","/","p","l","a","i","n">>
JSONCharset == ApplicationJSON \o <<";"," ","c","h","a","r","s","e","t","=","u","t","f","-","8">>

Field(t, j, h, q, p) == [type |-> t, json |-> j, header |-> h, query |-> q, param |-> p]

FirstTypes == {StringT, IntT(8), SliceT(StringT), BytesT}
SecondTypes == {StringT, IntT(8)}

\* Two-field destination structs: which stage each field is tagged for.
Layouts ==
    UNION { { <<Field(t1, "f1", "", "q1", ""), Field(t2, "f2", "x-h2", "", "")>>,
              <<Field(t1, "f1", "x-h1", "q1", ""), Field(t2, "f2", "", "", "p2")>>,
              <<Field(t1, "f1", "", "", "p1"), Field(t2, "f2", "", "q2", "")>>,
              <<Field(t1, "f1", "content-type", "", ""), Field(t2, "f2", "", "q2", "")>>,
              <<Field(t1, "f1", "", "q1", ""), Field(t2, "f2", "", "q2", "")>>,
              <<Field(t1, "f1", "x-h1", "q1", "p1"), Field(t2, "f2", "", "", "")>> }
            : t1 \in FirstTypes, t2 \in SecondTypes }

QueryKeys == {"q1", "q2"}
HeaderKeys == {"X-H1", "X-H2"}
ParamNames == {"p1", "p2"}
PipelineValues == {<<>>, <<One>>, <<MQ>>}
ParamTexts == {<<>>, One, MQ}

QueryTags(flds) == {flds[i].query : i \in 1..Len(flds)}
HeaderTags(flds) == {CanonicalMIMEHeaderKey(flds[i].header) : i \in 1..Len(flds)}
ParamTags(flds) == {flds[i].param : i \in 1..Len(flds)}

BodyNotJSON == [syntaxOK |-> FALSE, members |-> <<>>]
BodyObject == [syntaxOK |-> TRUE, members |-> [n \in {"f1"} |-> MQ]]

\* Method, Content-Type header and body of the requests.
RequestShapes ==
    { [method |-> MethodGet, contentType |-> <<ApplicationJSON>>, body |-> BodyObject],
      [method |-> MethodPost, contentType |-> <<JSONCharset>>, body |-> BodyObject],
      [method |-> MethodPost, contentType |-> <<JSONCharset>>, body |-> BodyNotJSON],
      [method |-> MethodPost, contentType |-> <<TextPlain>>, body |-> BodyObject],
      [method |-> MethodPost, contentType |-> <<>>, body |-> BodyObject] }

\* The requests for a struct: the keys no field is tagged with carry no values.
Requests(flds) ==
    { [method |-> sh.method,
       header |-> [k \in HeaderKeys \cup {"Content-Type"} |->
                      IF k = "Content-Type" THEN sh.contentType ELSE h[k]],
       query |-> q,
       body |-> sh.body] :
      sh \in RequestShapes,
      q \in {f \in [QueryKeys -> PipelineValues] :
                \A k \in QueryKeys \ QueryTags(flds) : f[k] = <<>>},
      h \in {f \in [HeaderKeys -> PipelineValues] :
                \A k \in HeaderKeys \ HeaderTags(flds) : f[k] = <<>>} }

NilFunc == [nil |-> TRUE, fn |-> [n \in ParamNames |-> <<>>]]
ParamExtractors(flds) ==
    { [nil |-> FALSE, fn |-> f] :
      f \in {g \in [ParamNames -> ParamTexts] :
                \A n \in ParamNames \ ParamTags(flds) : g[n] = <<>>} }

DecoderLists ==
    { <<>>, <<XMLBodyDecoder, JSONBodyDecoder>>, <<JSONBodyDecoder, JSONBodyDecoder>> }

\* var DefaultBinding = Compose(BindHeader, BindQuery, BindJSONBody)
DefaultBinding == <<"BindHeader", "BindQuery", "BindJSONBody">>

\* NewBinder(options...)
BinderOptions(flds) ==
    { [paramExtractor |-> pe, validator |-> [nil |-> vnil], bodyDecoders |-> ds, fns |-> <<>>] :
      pe \in {NilFunc} \cup ParamExtractors(flds),
      vnil \in BOOLEAN,
      ds \in DecoderLists }

\* Compose(fns...): DefaultBinding and other lists of the same stage functions.
ComposeLists ==
    { DefaultBinding, <<>>, <<"BindQuery", "BindHeader">>,
      <<"BindJSONBody", "BindQuery", "BindHeader">> }

ComposeOptions ==
    { [paramExtractor |-> NilFunc, validator |-> [nil |-> TRUE], bodyDecoders |-> <<>>,
       fns |-> fns] : fns \in ComposeLists }

ZeroStruct(flds) == [i \in 1..Len(flds) |-> Zero(flds[i].type)]

Init ==
    /\ api \in {"BindRequest", "Compose"}
    /\ fields \in Layouts
    /\ req \in Requests(fields)
    /\ options \in IF api = "BindRequest" THEN BinderOptions(fields) ELSE ComposeOptions
    /\ out = ZeroStruct(fields)
    /\ entry = out
    /\ pc = IF api = "BindRequest" THEN "decode" ELSE "compose"
    /\ stage = 1
    /\ err = NoErr
    /\ closed = 0
    /\ log = <<>>

(***************************************************************************)
(* Binder.BindRequest                                                      *)
(***************************************************************************)
\* Mutant of StageAfter: the header and the route-parameter stages change places.
StageAfterSwapped(s) ==
    CASE s = "decode" -> "query"
      [] s = "query" -> "param"
      [] s = "param" -> "header"
      [] s = "header" -> "validate"
      [] s = "validate" -> "return"

\* Mutant of StageAfter: the header stage runs before the query stage.
StageAfterHeaderFirst(s) ==
    CASE s = "decode" -> "header"
      [] s = "header" -> "query"
      [] s = "query" -> "param"
      [] s = "param" -> "validate"
      [] s = "validate" -> "return"

\* The order of the stages of BindRequest.
StageAfter(s) ==
    CASE s = "decode" -> "query"
      [] s = "query" -> "header"
      [] s = "header" -> "param"
      [] s = "param" -> "validate"
      [] s = "validate" -> "return"

\* Mutant of AfterStage: a stage's error does not end the call.
AfterStageIgnoringError(e, s) ==
    CASE s = "decode" -> "query"
      [] s = "query" -> "header"
      [] s = "header" -> "param"
      [] s = "param" -> "validate"
      [] s = "validate" -> "return"

\* Where the call goes after stage s returned e: an error returns at once.
AfterStage(e, s) == IF e # NoErr THEN "return" ELSE StageAfter(s)

\* The decoders Match is called on, in order: up to and including the first match.
\* Mutant of MatchScan: the scan does not stop at the first match, the last one wins.
LaterHit(i, rest) ==
    [calls |-> <<Call("Match", i, NoErr)>> \o rest.calls,
     hit |-> IF rest.hit # 0 THEN rest.hit ELSE i]
Missed(i, rest) == [calls |-> <<Call("Match", i, NoErr)>> \o rest.calls, hit |-> rest.hit]

RECURSIVE MatchScanLast(_, _, _)
MatchScanLast(decoders, rq, i) ==
    IF i > Len(decoders) THEN [calls |-> <<>>, hit |-> 0]
    ELSE IF Match(decoders[i], rq) THEN LaterHit(i, MatchScanLast(decoders, rq, i + 1))
    ELSE Missed(i, MatchScanLast(decoders, rq, i + 1))

Scanned(i, rest) == [calls |-> <<Call("Match", i, NoErr)>> \o rest.calls, hit |-> rest.hit]

RECURSIVE MatchScan(_, _, _)
MatchScan(decoders, rq, i) ==
    IF i > Len(decoders) THEN [calls |-> <<>>, hit |-> 0]
    ELSE IF Match(decoders[i], rq) THEN [calls |-> <<Call("Match", i, NoErr)>>, hit |-> i]
    ELSE Scanned(i, MatchScan(decoders, rq, i + 1))

\* The body stage: for a request that is not a GET, the first decoder that matches
\* decodes the body.  The Close of the body is deferred to the return.
DecodeStage ==
    /\ pc = "decode"
    /\ entry' = out
    /\ IF req.method # MethodGet
       THEN \E scan \in {MatchScan(options.bodyDecoders, req, 1)} :
                IF scan.hit = 0
                THEN /\ log' = log \o scan.calls
                     /\ out' = out
                     /\ err' = NoErr
                     /\ pc' = StageAfter("decode")
                ELSE \E r \in {DecodeBody(options.bodyDecoders[scan.hit], req.body, fields, out)} :
                         /\ log' = log \o scan.calls \o <<Call("DecodeBody", scan.hit, r.err)>>
                         /\ out' = r.out
                         /\ err' = r.err
                         /\ pc' = AfterStage(r.err, "decode")
       ELSE /\ pc' = StageAfter("decode")
            /\ UNCHANGED <<out, err, log>>
    /\ UNCHANGED <<api, options, fields, req, stage, closed>>

QueryStage ==
    /\ pc = "query"
    /\ \E r \in {bindQuery(req, fields, out)} :
           /\ out' = r.out
           /\ err' = r.err
           /\ pc' = AfterStage(r.err, "query")
           /\ log' = Append(log, Call("bindQuery", 0, r.err))
    /\ entry' = out
    /\ UNCHANGED <<api, options, fields, req, stage, closed>>

HeaderStage ==
    /\ pc = "header"
    /\ \E r \in {bindHeader(req, fields, out)} :
           /\ out' = r.out
           /\ err' = r.err
           /\ pc' = AfterStage(r.err, "header")
           /\ log' = Append(log, Call("bindHeader", 0, r.err))
    /\ entry' = out
    /\ UNCHANGED <<api, options, fields, req, stage, closed>>

ParamStage ==
    /\ pc = "param"
    /\ IF ~options.paramExtractor.nil
       THEN \E r \in {bindParam(options.paramExtractor.fn, fields, out)} :
                /\ out' = r.out
                /\ err' = r.err
                /\ pc' = AfterStage(r.err, "param")
                /\ entry' = out
                /\ log' = Append(log, Call("bindParam", 0, r.err))
       ELSE /\ pc' = StageAfter("param")
            /\ UNCHANGED <<out, err, entry, log>>
    /\ UNCHANGED <<api, options, fields, req, stage, closed>>

\* The validator is the caller's function of the destination: any result.
ValidateStage ==
    /\ pc = "validate"
    /\ IF ~options.validator.nil
       THEN \E verr \in {NoErr, ErrValidation} :
                /\ err' = verr
                /\ entry' = out
                /\ log' = Append(log, Call("validator", 0, verr))
       ELSE UNCHANGED <<err, entry, log>>
    /\ pc' = StageAfter("validate")
    /\ UNCHANGED <<api, options, fields, req, stage, closed, out>>

\* The return of BindRequest (or its panic): the deferred req.Body.Close() runs.
Return ==
    /\ pc = "return"
    /\ IF req.method # MethodGet
       THEN /\ closed' = closed + 1
            /\ log' = Append(log, Call("Close", 0, NoErr))
       ELSE UNCHANGED <<closed, log>>
    /\ pc' = IF IsPanic(err) THEN "panicked" ELSE "done"
    /\ UNCHANGED <<api, options, fields, req, stage, out, err, entry>>

(***************************************************************************)
(* Compose and the stage functions of the composable variant.              *)
(***************************************************************************)
\* The result of a stage function: [out, err, closes, calls], where closes counts
\* the Close calls it made on req.Body and calls lists what it called.
Extracted(r) == [out |-> r.out, err |-> r.err, closes |-> 0, calls |-> <<>>]
Decoded(r) ==
    [out |-> r.out, err |-> r.err, closes |-> 1,
     calls |-> <<Call("Decode", 0, r.err), Call("Close", 0, NoErr)>>]

\* Mutant of BindJSONBody: the method is not looked at.
BindJSONBodyAnyMethod(rq, flds, o) ==
    IF ParseMediaType(ContentType(rq)).mediatype # ApplicationJSON
    THEN [out |-> o, err |-> NoErr, closes |-> 0, calls |-> <<>>]
    ELSE Decoded(DecodeBody(JSONBodyDecoder, rq.body, flds, o))

BindJSONBody(rq, flds, o) ==
    IF rq.method = MethodGet
    THEN [out |-> o, err |-> NoErr, closes |-> 0, calls |-> <<>>]
    ELSE IF ParseMediaType(ContentType(rq)).mediatype # ApplicationJSON
    THEN [out |-> o, err |-> NoErr, closes |-> 0, calls |-> <<>>]
    ELSE Decoded(DecodeBody(JSONBodyDecoder, rq.body, flds, o))

BindHeader(rq, flds, o) == Extracted(bindHeader(rq, flds, o))
BindQuery(rq, flds, o) == Extracted(bindQuery(rq, flds, o))

\* One stage function of a Compose list applied to the request and destination.
RunStage(fn, rq, flds, o) ==
    CASE fn = "BindHeader" -> BindHeader(rq, flds, o)
      [] fn = "BindQuery" -> BindQuery(rq, flds, o)
      [] fn = "BindJSONBody" -> BindJSONBody(rq, flds, o)

\* Mutant of ComposeStep: the loop goes on after a stage's error.
ComposeStepIgnoringError ==
    /\ pc = "compose"
    /\ stage <= Len(options.fns)
    /\ \E r \in {RunStage(options.fns[stage], req, fields, out)} :
           /\ out' = r.out
           /\ err' = r.err
           /\ closed' = closed + r.closes
           /\ log' = log \o <<Call(options.fns[stage], 0, r.err)>> \o r.calls
           /\ pc' = IF IsPanic(r.err) THEN "panicked" ELSE "compose"
    /\ entry' = out
    /\ stage' = stage + 1
    /\ UNCHANGED <<api, options, fields, req>>

\* One iteration of Compose's loop; an error returns at once.
ComposeStep ==
    /\ pc = "compose"
    /\ stage <= Len(options.fns)
    /\ \E r \in {RunStage(options.fns[stage], req, fields, out)} :
           /\ out' = r.out
           /\ err' = r.err
           /\ closed' = closed + r.closes
           /\ log' = log \o <<Call(options.fns[stage], 0, r.err)>> \o r.calls
           /\ pc' = IF IsPanic(r.err) THEN "panicked"
                    ELSE IF r.err # NoErr THEN "done"
                    ELSE "compose"
    /\ entry' = out
    /\ stage' = stage + 1
    /\ UNCHANGED <<api, options, fields, req>>

\* The loop is over: return nil.
ComposeReturn ==
    /\ pc = "compose"
    /\ stage > Len(options.fns)
    /\ pc' = "done"
    /\ UNCHANGED <<api, options, fields, req, out, stage, err, closed, log, entry>>

(***************************************************************************)
(* The coercer alone: bind applied to one field of every type of BindTypes *)
(* holding its zero value or another value, with every raw value set of up *)
(* to MaxValues texts of BindTexts.                                        *)
(***************************************************************************)
BindTexts ==
    { <<>>, <<"1">>, <<"-","1">>, <<"3","0","0">>, <<"b","b">>, <<"M","Q","=","=">>,
      <<"t","r","u","e">>, <<"1",".","5">> }

BindTypes ==
    { StringT, IntT(8), IntT(64), UintT(8), BoolT, FloatT(64), HexInt64T, ValueTextT, StructT,
      PtrT(StringT), PtrT(IntT(8)), PtrT(HexInt64T), PtrT(BytesT), PtrT(StructT),
      SliceT(StringT), SliceT(IntT(8)), BytesT, SliceT(HexInt64T), SliceT(PtrT(HexInt64T)),
      SliceT(PtrT(IntT(8))), SliceT(BytesT), SliceT(StructT) }

RawValueSets == UNION { [1..n -> BindTexts] : n \in 0..MaxValues }

\* A value of the type other than its zero value.
RECURSIVE Sample(_)
Sample(t) ==
    CASE Kind(t) = "string" -> StrV(<<"o">>)
      [] Kind(t) = "int" -> IntV(7)
      [] Kind(t) = "uint" -> UintV(7)
      [] Kind(t) = "bool" -> BoolV(TRUE)
      [] Kind(t) = "float" -> FloatV(25, 1)
      [] Kind(t) = "HexInt64" -> HexV(7)
      [] Kind(t) = "ptr" -> PtrV(Sample(Elem(t)))
      [] Kind(t) = "slice" -> SliceV(<<Sample(Elem(t))>>)
      [] OTHER -> Zero(t)

InitBind ==
    /\ api = "bind"
    /\ options \in {o \in ComposeOptions : o.fns = DefaultBinding}
    /\ \E t \in BindTypes : fields = <<Field(t, "f1", "", "q1", "")>>
    /\ \E values \in RawValueSets :
           req = [method |-> MethodGet,
                  header |-> [k \in HeaderKeys \cup {"Content-Type"} |-> <<>>],
                  query |-> [k \in QueryKeys |-> IF k = "q1" THEN values ELSE <<>>],
                  body |-> BodyNotJSON]
    /\ out \in {<<Zero(fields[1].type)>>, <<Sample(fields[1].type)>>}
    /\ entry = out
    /\ pc = "bind"
    /\ stage = 1
    /\ err = NoErr
    /\ closed = 0
    /\ log = <<>>

\* bind(outFieldValue, values) on the field.
BindCall ==
    /\ pc = "bind"
    /\ \E r \in {bind(fields[1].type, out[1], req.query["q1"])} :
           /\ out' = <<r.val>>
           /\ err' = r.err
           /\ log' = Append(log, Call("bind", 0, r.err))
           /\ pc' = IF IsPanic(r.err) THEN "panicked" ELSE "done"
    /\ entry' = out
    /\ UNCHANGED <<api, options, fields, req, stage, closed>>

SpecBind == InitBind /\ [][BindCall]_vars

(***************************************************************************)
(* The coercer on the text of a HexInt64: bind applied to a field of type  *)
(* HexInt64 or *HexInt64 with the one raw value MarshalText gives for a    *)
(* value between -MaxHex and MaxHex.                                       *)
(***************************************************************************)
MaxHex == 300

HexValues == (0 - MaxHex)..MaxHex

InitText ==
    /\ api = "bind"
    /\ options \in {o \in ComposeOptions : o.fns = DefaultBinding}
    /\ \E t \in {HexInt64T, PtrT(HexInt64T)} : fields = <<Field(t, "f1", "", "q1", "")>>
    /\ \E v \in HexValues :
           req = [method |-> MethodGet,
                  header |-> [k \in HeaderKeys \cup {"Content-Type"} |-> <<>>],
                  query |-> [k \in QueryKeys |-> IF k = "q1" THEN <<HexMarshalText(v)>> ELSE <<>>],
                  body |-> BodyNotJSON]
    /\ out \in {<<Zero(fields[1].type)>>, <<Sample(fields[1].type)>>}
    /\ entry = out
    /\ pc = "bind"
    /\ stage = 1
    /\ err = NoErr
    /\ closed = 0
    /\ log = <<>>

SpecText == InitText /\ [][BindCall]_vars

(***************************************************************************)
(* The coercer on integer fields: bind applied to a signed or unsigned     *)
(* field of 8, 16, 32 or 64 bits with one raw value, the base-10 text of a *)
(* number around the limits of the widths or a text that does not parse.   *)
(***************************************************************************)
IntSamples ==
    { 0 - 70000, 0 - 32769, 0 - 32768, 0 - 200, 0 - 129, 0 - 128, 0 - 1, 0, 1, 127, 128,
      255, 256, 300, 32767, 32768, 65535, 65536, 70000 }

\* Texts strconv rejects for both signednesses: not a number, and beyond 64 bits.
BadIntTexts ==
    { <<"b","b">>, <<"1",".","5">>, <<"1"," ">>, <<"-">>,
      <<"1","8","4","4","6","7","4","4","0","7","3","7","0","9","5","5","1","6","1","6">>,
      <<"-","9","2","2","3","3","7","2","0","3","6","8","5","4","7","7","5","8","0","9">> }

IntTypes == { IntT(8), IntT(16), IntT(32), IntT(64), UintT(8), UintT(16), UintT(32), UintT(64) }

InitInt ==
    /\ api = "bind"
    /\ options \in {o \in ComposeOptions : o.fns = DefaultBinding}
    /\ \E t \in IntTypes : fields = <<Field(t, "f1", "", "q1", "")>>
    /\ \E text \in {FormatInt(n, 10) : n \in IntSamples} \cup BadIntTexts :
           req = [method |-> MethodGet,
                  header |-> [k \in HeaderKeys \cup {"Content-Type"} |-> <<>>],
                  query |-> [k \in QueryKeys |-> IF k = "q1" THEN <<text>> ELSE <<>>],
                  body |-> BodyNotJSON]
    /\ out \in {<<Zero(fields[1].type)>>, <<Sample(fields[1].type)>>}
    /\ entry = out
    /\ pc = "bind"
    /\ stage = 1
    /\ err = NoErr
    /\ closed = 0
    /\ log = <<>>

SpecInt == InitInt /\ [][BindCall]_vars

(***************************************************************************)
(* DefaultBinding on requests with a form body.  The fields carry a form   *)
(* tag besides the others, and the body holds the form values ParseForm    *)
(* would read from it: [syntaxOK, members, form].                          *)
(***************************************************************************)
FormURLEncoded ==
    <<"a","p","p","l","i","c","a","t","i","o","n","/","x","-","w","w","w","-",
      "f","o","r","m","-","u","r","l","e","n","c","o","d","e","d">>
MultipartFormData ==
    <<"m","u","l","t","i","p","a","r","t","/","f","o","r","m","-","d","a","t","a">>

FormContentTypes ==
    { FormURLEncoded \o <<";"," ","c","h","a","r","s","e","t","=","u","t","f","-","8">>,
      MultipartFormData \o <<";"," ","b","o","u","n","d","a","r","y","=","x">> }

FormTexts == { One, <<"7">>, <<"4","2">> }

FormField(t, j, q, f) ==
    [type |-> t, json |-> j, header |-> "", query |-> q, param |-> "", form |-> f]

\* struct { Q string `query:"q"`; FormField T `form:"formField"`; JSONField string `json:"jsonField"` }
FormStructs ==
    { <<FormField(StringT, "Q", "q1", ""), FormField(t, "FormField", "", "formField"),
        FormField(StringT, "jsonField", "", "")>> : t \in {StringT, IntT(8)} }

FormRequests ==
    { [method |-> m,
       header |-> [k \in HeaderKeys \cup {"Content-Type"} |->
                      IF k = "Content-Type" THEN <<ct>> ELSE <<>>],
       query |-> [k \in QueryKeys |-> IF k = "q1" THEN q ELSE <<>>],
       body |-> [syntaxOK |-> FALSE, members |-> <<>>, form |-> [n \in {"formField"} |-> f]]] :
      m \in {MethodPost, "PUT"}, ct \in FormContentTypes, q \in PipelineValues, f \in FormTexts }

InitForm ==
    /\ api = "Compose"
    /\ fields \in FormStructs
    /\ req \in FormRequests
    /\ options \in {o \in ComposeOptions : o.fns = DefaultBinding}
    /\ out = ZeroStruct(fields)
    /\ entry = out
    /\ pc = "compose"
    /\ stage = 1
    /\ err = NoErr
    /\ closed = 0
    /\ log = <<>>

NextForm ==
    \/ ComposeStep
    \/ ComposeReturn

SpecForm == InitForm /\ [][NextForm]_vars

(***************************************************************************)
(* Concurrent BindRequest calls on one Binder.  The calls share the        *)
(* Binder's options and the destination's type; each has its own request   *)
(* and destination, so here req, out, err, pc and closed hold one value    *)
(* per call.  A step is one stage of one call.                             *)
(***************************************************************************)
Calls == 2

\* Validators without state: the result is a function of the destination.
Validate(validator, flds, o) ==
    CASE validator.fn = "accept" -> NoErr
      [] validator.fn = "reject" -> ErrValidation
      [] validator.fn = "requireF1" ->
            IF o[1] = Zero(flds[1].type) THEN ErrValidation ELSE NoErr

\* One call's state after a stage that returned r.
Staged(c, r, s) == [c EXCEPT !.out = r.out, !.err = r.err, !.pc = AfterStage(r.err, s)]

DecodedCall(opts, flds, c, scan) ==
    IF scan.hit = 0 THEN [c EXCEPT !.pc = StageAfter("decode")]
    ELSE Staged(c, DecodeBody(opts.bodyDecoders[scan.hit], c.req.body, flds, c.out), "decode")

\* The next stage of BindRequest for the call c = [req, out, err, pc, closed].
CallStep(opts, flds, c) ==
    CASE c.pc = "decode" ->
            IF c.req.method = MethodGet THEN [c EXCEPT !.pc = StageAfter("decode")]
            ELSE DecodedCall(opts, flds, c, MatchScan(opts.bodyDecoders, c.req, 1))
      [] c.pc = "query" -> Staged(c, bindQuery(c.req, flds, c.out), "query")
      [] c.pc = "header" -> Staged(c, bindHeader(c.req, flds, c.out), "header")
      [] c.pc = "param" ->
            IF opts.paramExtractor.nil THEN [c EXCEPT !.pc = StageAfter("param")]
            ELSE Staged(c, bindParam(opts.paramExtractor.fn, flds, c.out), "param")
      [] c.pc = "validate" ->
            IF opts.validator.nil THEN [c EXCEPT !.pc = StageAfter("validate")]
            ELSE [c EXCEPT !.err = Validate(opts.validator, flds, c.out),
                           !.pc = StageAfter("validate")]
      [] c.pc = "return" ->
            [c EXCEPT !.closed = IF c.req.method # MethodGet THEN c.closed + 1 ELSE c.closed,
                      !.pc = IF IsPanic(c.err) THEN "panicked" ELSE "done"]

\* BindRequest(rq, out) at its entry.
Entered(rq, flds) ==
    [req |-> rq, out |-> ZeroStruct(flds), err |-> NoErr, pc |-> "decode", closed |-> 0]

CallEnded(c) == c.pc \in {"done", "panicked"}

ParFields == <<Field(StringT, "f1", "", "q1", ""), Field(IntT(8), "f2", "x-h2", "", "p2")>>

ParRequest(method, body, q1, h2) ==
    [method |-> method,
     header |-> [k \in HeaderKeys \cup {"Content-Type"} |->
                    CASE k = "Content-Type" -> <<JSONCharset>>
                      [] k = "X-H2" -> h2
                      [] OTHER -> <<>>],
     query |-> [k \in QueryKeys |-> IF k = "q1" THEN q1 ELSE <<>>],
     body |-> body]

ParRequests ==
    { ParRequest(MethodGet, BodyObject, <<One>>, <<>>),
      ParRequest(MethodPost, BodyObject, <<>>, <<One>>),
      ParRequest(MethodPost, BodyNotJSON, <<One>>, <<One>>),
      ParRequest(MethodPost, BodyObject, <<One>>, <<MQ>>) }

ParOptions ==
    { [paramExtractor |-> pe, validator |-> v, bodyDecoders |-> ds, fns |-> <<>>] :
      pe \in {NilFunc,
              [nil |-> FALSE, fn |-> [n \in ParamNames |-> IF n = "p2" THEN One ELSE <<>>]]},
      v \in {[nil |-> TRUE, fn |-> "accept"], [nil |-> FALSE, fn |-> "reject"],
             [nil |-> FALSE, fn |-> "requireF1"]},
      ds \in {<<>>, <<XMLBodyDecoder, JSONBodyDecoder>>} }

InitPar ==
    /\ api = "Concurrent"
    /\ options \in ParOptions
    /\ fields = ParFields
    /\ req \in [1..Calls -> ParRequests]
    /\ out = [i \in 1..Calls |-> ZeroStruct(fields)]
    /\ err = [i \in 1..Calls |-> NoErr]
    /\ pc = [i \in 1..Calls |-> "decode"]
    /\ closed = [i \in 1..Calls |-> 0]
    /\ entry = out
    /\ stage = 1
    /\ log = <<>>

CallOf(i) == [req |-> req[i], out |-> out[i], err |-> err[i], pc |-> pc[i], closed |-> closed[i]]

\* Call i takes the step that leaves it as c.
Stepped(i, c) ==
    /\ out' = [out EXCEPT ![i] = c.out]
    /\ err' = [err EXCEPT ![i] = c.err]
    /\ pc' = [pc EXCEPT ![i] = c.pc]
    /\ closed' = [closed EXCEPT ![i] = c.closed]
    /\ UNCHANGED <<api, fields, req, stage, entry, log>>

\* Mutant of BindRequestStep: the body stage uses up the Binder's decoders.
BindRequestStepConsuming ==
    \E i \in 1..Calls :
        /\ ~CallEnded(CallOf(i))
        /\ \E c \in {CallStep(options, fields, CallOf(i))} : Stepped(i, c)
        /\ options' = IF pc[i] = "decode" /\ req[i].method # MethodGet
                      THEN [options EXCEPT !.bodyDecoders = <<>>]
                      ELSE options

\* Some call that has not returned runs its next stage; binder.options is only read.
BindRequestStep ==
    \E i \in 1..Calls :
        /\ ~CallEnded(CallOf(i))
        /\ \E c \in {CallStep(options, fields, CallOf(i))} : Stepped(i, c)
        /\ options' = options

SpecPar == InitPar /\ [][BindRequestStep]_vars

Next ==
    \/ DecodeStage
    \/ QueryStage
    \/ HeaderStage
    \/ ParamStage
    \/ ValidateStage
    \/ Return
    \/ ComposeStep
    \/ ComposeReturn

Spec == Init /\ [][Next]_vars

(***************************************************************************)
(* Properties.                                                             *)
(***************************************************************************)
Called(op) == \E i \in DOMAIN log : log[i].op = op
Returned == pc = "done"
Ended == pc \in {"return", "done", "panicked"}

\* The arguments of the calls of op, in order.
RECURSIVE ArgsOf(_, _)
ArgsOf(op, l) ==
    IF l = <<>> THEN <<>>
    ELSE (IF l[1].op = op THEN <<l[1].arg>> ELSE <<>>) \o ArgsOf(op, Tail(l))

\* The latest call other than the deferred Close.
LastCall ==
    IF log # <<>> /\ log[Len(log)].op = "Close" THEN Len(log) - 1 ELSE Len(log)

Extractors == {"bindQuery", "bindHeader", "bindParam"}

Tag(op, f) ==
    CASE op = "bindQuery" -> f.query
      [] op = "bindHeader" -> f.header
      [] op = "bindParam" -> f.param

\* The raw values extractor op hands to bind for field f.
RawValues(op, f) ==
    CASE op = "bindQuery" -> QueryValues(req, f.query)
      [] op = "bindHeader" -> HeaderValues(req, CanonicalMIMEHeaderKey(f.header))
      [] op = "bindParam" -> <<options.paramExtractor.fn[f.param]>>

\* bind of field i alone, from the field's value at the entry of the stage.
Coerced(op, i) == bind(fields[i].type, entry[i], RawValues(op, fields[i]))

\* The tagged fields of extractor op whose coercion fails.
Failing(op) ==
    {i \in 1..Len(fields) : Tag(op, fields[i]) # "" /\ Coerced(op, i).err # NoErr}

Least(S) == CHOOSE i \in S : \A j \in S : i <= j

\* The decoders of the Binder that accept the request.
Matching == {i \in 1..Len(options.bodyDecoders) : Match(options.bodyDecoders[i], req)}

\* C1 as claimed: body decode, then header, then query, then route parameters, then
\* validation.
ClaimedRank(op) ==
    CASE op = "Match" -> 0
      [] op = "DecodeBody" -> 1
      [] op = "bindHeader" -> 2
      [] op = "bindQuery" -> 3
      [] op = "bindParam" -> 4
      [] op = "validator" -> 5
      [] op = "Close" -> 6

\* C1 (as claimed): the calls of one BindRequest are in the order body decode,
\* header extraction, query extraction, route-parameter extraction, validation; in
\* particular header extraction comes before query extraction.
C1_ClaimedStageOrder ==
    api = "BindRequest" =>
        \A i, j \in DOMAIN log :
            i < j => ClaimedRank(log[i].op) <= ClaimedRank(log[j].op)

\* The order of the code: query extraction comes before header extraction.
Rank(op) ==
    CASE op = "Match" -> 0
      [] op = "DecodeBody" -> 1
      [] op = "bindQuery" -> 2
      [] op = "bindHeader" -> 3
      [] op = "bindParam" -> 4
      [] op = "validator" -> 5
      [] op = "Close" -> 6

\* C1 (amended): BindRequest runs its stages in the order body decode (non-GET only),
\* query extraction, header extraction, route-parameter extraction (only with a param
\* extractor), validation (only with a validator); each stage runs at most once, and
\* a call that returns no error has run every stage that applies.
C1_StageOrder ==
    api = "BindRequest" =>
        /\ \A i, j \in DOMAIN log :
              i < j => /\ Rank(log[i].op) <= Rank(log[j].op)
                       /\ log[i].op # "Match" => Rank(log[i].op) < Rank(log[j].op)
        /\ Called("DecodeBody") => req.method # MethodGet
        /\ Called("bindParam") => ~options.paramExtractor.nil
        /\ Called("validator") => ~options.validator.nil
        /\ (Returned /\ err = NoErr) =>
              /\ Called("bindQuery")
              /\ Called("bindHeader")
              /\ ~options.paramExtractor.nil => Called("bindParam")
              /\ ~options.validator.nil => Called("validator")
              /\ (req.method # MethodGet /\ Matching # {}) => Called("DecodeBody")

\* A call that ran all five stages.
C1_Witness ==
    /\ api = "BindRequest"
    /\ Returned
    /\ err = NoErr
    /\ Called("DecodeBody")
    /\ Called("bindQuery")
    /\ Called("bindHeader")
    /\ Called("bindParam")
    /\ Called("validator")

\* C2: once a call of BindRequest has returned an error, nothing is called after it
\* but the deferred Close, and BindRequest returns that error; when the failing stage
\* is an extractor that failed on field k, the tagged fields before k hold their
\* coerced values and every other field holds the value it had when the stage began.
C2_ErrorStopsPipeline ==
    api = "BindRequest" =>
        /\ \A i \in DOMAIN log :
              log[i].err # NoErr =>
                  /\ \A j \in DOMAIN log : j > i => log[j].op = "Close"
                  /\ Ended
                  /\ err = log[i].err
        /\ \A i \in DOMAIN log :
              ( /\ i = LastCall
                /\ log[i].op \in Extractors
                /\ log[i].err # NoErr
                /\ ~IsPanic(log[i].err) ) =>
                  /\ Failing(log[i].op) # {}
                  /\ err = Coerced(log[i].op, Least(Failing(log[i].op))).err
                  /\ \A j \in 1..Len(fields) :
                        out[j] = IF j < Least(Failing(log[i].op)) /\ Tag(log[i].op, fields[j]) # ""
                                 THEN Coerced(log[i].op, j).val
                                 ELSE entry[j]

\* The query stage wrote field 1 and failed on field 2, after the body was decoded.
C2_Witness ==
    /\ api = "BindRequest"
    /\ Returned
    /\ Called("DecodeBody")
    /\ log[LastCall].op = "bindQuery"
    /\ err = ErrSyntax
    /\ Failing("bindQuery") = {2}
    /\ out[1] # entry[1]
    /\ out[2] = entry[2]

\* C3: the validator is called at most once, only when configured, only after the
\* body stage and every extractor that applies have returned no error; BindRequest
\* returns what the validator returned.
C3_ValidatorLast ==
    api = "BindRequest" =>
        /\ Cardinality({i \in DOMAIN log : log[i].op = "validator"}) <= 1
        /\ \A i \in DOMAIN log :
              log[i].op = "validator" =>
                  /\ ~options.validator.nil
                  /\ \A j \in 1..(i - 1) : log[j].err = NoErr
                  /\ \E j \in 1..(i - 1) : log[j].op = "bindQuery"
                  /\ \E j \in 1..(i - 1) : log[j].op = "bindHeader"
                  /\ ~options.paramExtractor.nil => \E j \in 1..(i - 1) : log[j].op = "bindParam"
                  /\ (req.method # MethodGet /\ Matching # {}) =>
                        \E j \in 1..(i - 1) : log[j].op = "DecodeBody"
                  /\ Ended
                  /\ err = log[i].err

\* The validator rejected a destination that every stage had bound.
C3_Witness ==
    /\ api = "BindRequest"
    /\ Returned
    /\ Called("DecodeBody")
    /\ Called("bindParam")
    /\ log[LastCall].op = "validator"
    /\ err = ErrValidation

\* C4: for a request that is not a GET, Match is called on the decoders in
\* registration order up to the first that accepts, DecodeBody on that one alone; a
\* failed decode is followed by nothing but the Close and is what BindRequest
\* returns; with no decoder accepting nothing is decoded, no error arises and the
\* extractors run.
C4_FirstMatchDecodes ==
    (api = "BindRequest" /\ req.method # MethodGet /\ pc # "decode") =>
        /\ ArgsOf("Match", log) =
              [i \in 1..(IF Matching = {} THEN Len(options.bodyDecoders) ELSE Least(Matching)) |-> i]
        /\ ArgsOf("DecodeBody", log) = IF Matching = {} THEN <<>> ELSE <<Least(Matching)>>
        /\ \A i \in DOMAIN log :
              (log[i].op = "DecodeBody" /\ log[i].err # NoErr) =>
                  /\ \A j \in DOMAIN log : j > i => log[j].op = "Close"
                  /\ err = log[i].err
        /\ Matching = {} => (pc = "query" /\ err = NoErr) \/ Called("bindQuery")

\* Two registered decoders accept the request; the first one decoded and failed.
C4_Witness ==
    /\ api = "BindRequest"
    /\ Returned
    /\ Cardinality(Matching) = 2
    /\ ArgsOf("DecodeBody", log) = <<1>>
    /\ err = ErrJSONSyntax

\* C5 (as claimed): when a bind call on a request that is not a GET has returned,
\* through Binder.BindRequest or through a Compose list that ran BindJSONBody, the
\* body has been closed exactly once.
C5_BodyClosedOnce ==
    ( /\ Returned
      /\ req.method # MethodGet
      /\ api = "BindRequest" \/ (api = "Compose" /\ Called("BindJSONBody")) ) =>
        closed = 1

\* C6: for a GET no decoder is asked to decode and the body is not read; the body
\* stage leaves every field as it was, and the extractors still run.
C6_GetSkipsBody ==
    (req.method = MethodGet /\ api \in {"BindRequest", "Compose"}) =>
        /\ ~Called("DecodeBody")
        /\ ~Called("Decode")
        /\ (api = "BindRequest" /\ pc = "query") => out = ZeroStruct(fields)
        /\ (api = "Compose" /\ LastCall > 0 /\ log[LastCall].op = "BindJSONBody") =>
              /\ out = entry
              /\ log[LastCall].err = NoErr
        /\ (api = "BindRequest" /\ Returned /\ err = NoErr) =>
              Called("bindQuery") /\ Called("bindHeader")
        /\ (api = "Compose" /\ Returned /\ err = NoErr) =>
              \A k \in DOMAIN options.fns : Called(options.fns[k])

\* A GET with Content-Type application/json went through BindJSONBody.
C6_Witness ==
    /\ api = "Compose"
    /\ req.method = MethodGet
    /\ ParseMediaType(ContentType(req)).mediatype = ApplicationJSON
    /\ Returned
    /\ options.fns = DefaultBinding
    /\ log[LastCall].op = "BindJSONBody"
    /\ out # ZeroStruct(fields)

\* The calls of Compose's stage functions, in order.
RECURSIVE StageCalls(_)
StageCalls(l) ==
    IF l = <<>> THEN <<>>
    ELSE (IF l[1].op \in {"BindHeader", "BindQuery", "BindJSONBody"} THEN <<l[1]>> ELSE <<>>)
         \o StageCalls(Tail(l))

InListOrder(calls) ==
    /\ Len(calls) <= Len(options.fns)
    /\ \A k \in 1..Len(calls) : calls[k].op = options.fns[k]
    /\ \A k \in 1..(Len(calls) - 1) : calls[k].err = NoErr
    /\ (calls # <<>> /\ calls[Len(calls)].err # NoErr) =>
          /\ pc \in {"done", "panicked"}
          /\ err = calls[Len(calls)].err
    /\ Returned =>
          \/ calls # <<>> /\ calls[Len(calls)].err # NoErr
          \/ Len(calls) = Len(options.fns) /\ err = NoErr

MalformedJSONRequest ==
    /\ req.method # MethodGet
    /\ ParseMediaType(ContentType(req)).mediatype = ApplicationJSON
    /\ ~req.body.syntaxOK

\* C12: Compose calls its stage functions in list order on the one request and
\* destination, returns the first error with no later stage called, and nil when
\* every stage succeeded or the list is empty; DefaultBinding on a non-GET
\* application/json request with malformed JSON, once its body stage is reached,
\* returns the parse failure with every field as the header and query stages left it.
C12_ComposeInOrder ==
    api = "Compose" =>
        /\ InListOrder(StageCalls(log))
        /\ ( /\ options.fns = DefaultBinding
             /\ MalformedJSONRequest
             /\ Called("BindJSONBody") ) =>
               /\ Returned
               /\ err = ErrJSONSyntax
               /\ out = entry
               /\ out = bindQuery(req, fields, bindHeader(req, fields, ZeroStruct(fields)).out).out

\* DefaultBinding bound a header field and a query field, then failed on the body.
C12_Witness ==
    /\ api = "Compose"
    /\ options.fns = DefaultBinding
    /\ MalformedJSONRequest
    /\ Returned
    /\ err = ErrJSONSyntax
    /\ fields[1].query # "" /\ out[1] # Zero(fields[1].type)
    /\ fields[2].header # "" /\ out[2] # Zero(fields[2].type)

\* The stages of the call that can write a field, in the order they run.
BodyStageApplies(accepted) ==
    IF req.method # MethodGet /\ accepted THEN <<"body">> ELSE <<>>

RECURSIVE ListStages(_)
ListStages(fns) ==
    IF fns = <<>> THEN <<>>
    ELSE (CASE fns[1] = "BindHeader" -> <<"header">>
            [] fns[1] = "BindQuery" -> <<"query">>
            [] fns[1] = "BindJSONBody" ->
                  BodyStageApplies(ParseMediaType(ContentType(req)).mediatype = ApplicationJSON))
         \o ListStages(Tail(fns))

Pipeline ==
    IF api = "BindRequest"
    THEN BodyStageApplies(Matching # {}) \o <<"query", "header">>
         \o (IF options.paramExtractor.nil THEN <<>> ELSE <<"param">>)
    ELSE ListStages(options.fns)

\* Stage s has an entry for field i: a tag, or a member of the JSON object.
Writes(s, i) ==
    CASE s = "body" -> req.body.syntaxOK /\ fields[i].json \in DOMAIN req.body.members
      [] s = "query" -> fields[i].query # ""
      [] s = "header" -> fields[i].header # ""
      [] s = "param" -> fields[i].param # ""

StageValues(s, i) ==
    CASE s = "body" -> <<req.body.members[fields[i].json]>>
      [] s = "query" -> RawValues("bindQuery", fields[i])
      [] s = "header" -> RawValues("bindHeader", fields[i])
      [] s = "param" -> RawValues("bindParam", fields[i])

HasValue(s, i) == Writes(s, i) /\ ~NoValue(StageValues(s, i))

\* What stage s alone makes of a zero field i.
Written(s, i) ==
    IF s = "body"
    THEN JSONStore(fields[i].type, Zero(fields[i].type), StageValues(s, i)[1]).val
    ELSE bind(fields[i].type, Zero(fields[i].type), StageValues(s, i)).val

Greatest(S) == CHOOSE k \in S : \A j \in S : j <= k
WithValue(i) == {k \in DOMAIN Pipeline : HasValue(Pipeline[k], i)}
Writing(i) == {k \in DOMAIN Pipeline : Writes(Pipeline[k], i)}
IsSequence(t) == Kind(t) = "slice" /\ ~IsBytes(t)

\* The final value of a field that is not a sequence: that of the last stage with a
\* value for it.
LastValue(i) ==
    IF WithValue(i) = {} THEN Zero(fields[i].type)
    ELSE Written(Pipeline[Greatest(WithValue(i))], i)

BoundType == fields[1].type
BoundValues == req.query["q1"]
BindEnded == api = "bind" /\ pc # "bind"

\* C7 (as claimed): binding a []byte field from no raw values, or from a first value
\* that is the empty text, neither fails nor panics and leaves the field as it was.
C7_BytesNoValueUntouched ==
    (BindEnded /\ IsBytes(BoundType) /\ NoValue(BoundValues)) =>
        /\ pc = "done"
        /\ err = NoErr
        /\ out = entry

\* C8 (as claimed): for every scalar, pointer and custom text-decodable field, no
\* raw values, or a first value that is the empty text, give no error and leave the
\* field as it was.
C8_ClaimedNoValueUntouched ==
    ( /\ BindEnded
      /\ NoValue(BoundValues)
      /\ Kind(BoundType) \in {"string", "int", "uint", "bool", "float", "ptr",
                              "HexInt64", "ValueText"} ) =>
        /\ pc = "done"
        /\ err = NoErr
        /\ out = entry

\* C8 (amended): the same for every scalar and pointer field and every custom
\* text-decodable field whose decoder has a pointer receiver; a field that is not a
\* pointer and whose own type has the decoder fails with "text unmarshaler type is
\* not a pointer", the field as it was.
C8_NoValueUntouched ==
    (BindEnded /\ NoValue(BoundValues)) =>
        /\ Kind(BoundType) \in {"string", "int", "uint", "bool", "float", "ptr", "HexInt64"} =>
              /\ pc = "done"
              /\ err = NoErr
              /\ out = entry
        /\ Kind(BoundType) = "ValueText" =>
              /\ pc = "done"
              /\ err = ErrNotPointer
              /\ out = entry

\* A nil pointer field bound from one empty text is still nil.
C8_Witness ==
    /\ BindEnded
    /\ Kind(BoundType) = "ptr"
    /\ BoundValues = << <<>> >>
    /\ entry = <<NilV>>
    /\ out = <<NilV>>
    /\ err = NoErr

\* C9: a successful bind of a sequence field other than []byte leaves a non-nil
\* sequence with one element per raw value, element i coerced from raw value i alone;
\* with no raw values it is the empty non-nil sequence.
C9_SliceResult ==
    ( /\ BindEnded
      /\ Kind(BoundType) = "slice"
      /\ ~IsBytes(BoundType)
      /\ err = NoErr ) =>
        /\ pc = "done"
        /\ out[1] # NilV
        /\ Len(out[1].elems) = Len(BoundValues)
        /\ \A i \in 1..Len(BoundValues) :
              out[1].elems[i] =
                  bind(Elem(BoundType), Zero(Elem(BoundType)), <<BoundValues[i]>>).val

\* A nil sequence field bound from no raw values is the empty sequence.
C9_Witness ==
    /\ BindEnded
    /\ Kind(BoundType) = "slice"
    /\ ~IsBytes(BoundType)
    /\ BoundValues = <<>>
    /\ entry = <<NilV>>
    /\ out = <<SliceV(<<>>)>>
    /\ err = NoErr

\* C10: a bind of a sequence or pointer field that returns an error leaves the field
\* as it was.
C10_FailureLeavesField ==
    ( /\ BindEnded
      /\ Kind(BoundType) \in {"slice", "ptr"}
      /\ pc = "done"
      /\ err # NoErr ) =>
        out = entry

\* The second element of a sequence failed after the first was coerced; the field
\* held a sequence before.
C10_Witness ==
    /\ BindEnded
    /\ Kind(BoundType) = "slice"
    /\ ~IsBytes(BoundType)
    /\ Len(BoundValues) = 2
    /\ BoundValues[1] # <<>>
    /\ bind(Elem(BoundType), Zero(Elem(BoundType)), <<BoundValues[1]>>).err = NoErr
    /\ err = ErrSyntax
    /\ entry # <<NilV>>
    /\ out = entry

(***************************************************************************)
(* Properties of concurrent calls, under SpecPar.                          *)
(***************************************************************************)
\* BindRequest(rq, out) run alone, as one sequential function of the Binder's
\* options, the request and a zero destination: [out, err].
Then(r, F(_)) == IF r.err # NoErr THEN r ELSE F(r.out)
Ok(o) == [out |-> o, err |-> NoErr]

BodyAlone(opts, flds, rq, hit) ==
    IF rq.method = MethodGet \/ hit = 0 THEN Ok(ZeroStruct(flds))
    ELSE DecodeBody(opts.bodyDecoders[hit], rq.body, flds, ZeroStruct(flds))

RunAlone(opts, flds, rq) ==
    Then(Then(Then(Then(BodyAlone(opts, flds, rq, MatchScan(opts.bodyDecoders, rq, 1).hit),
                        LAMBDA o : bindQuery(rq, flds, o)),
                   LAMBDA o : bindHeader(rq, flds, o)),
              LAMBDA o : IF opts.paramExtractor.nil THEN Ok(o)
                         ELSE bindParam(opts.paramExtractor.fn, flds, o)),
         LAMBDA o : IF opts.validator.nil THEN Ok(o)
                    ELSE [out |-> o, err |-> Validate(opts.validator, flds, o)])

SameAsAlone(i, alone) ==
    /\ out[i] = alone.out
    /\ err[i] = alone.err
    /\ closed[i] = IF req[i].method = MethodGet THEN 0 ELSE 1
    /\ pc[i] = IF IsPanic(alone.err) THEN "panicked" ELSE "done"

ParResults ==
    api = "Concurrent" =>
        \A i \in 1..Calls :
            CallEnded(CallOf(i)) => SameAsAlone(i, RunAlone(options, fields, req[i]))

\* C11: no step of BindRequest changes the Binder's options, and in every
\* interleaving of the stages of concurrent calls on one Binder, each call that has
\* returned left its destination, its result and its body as the same call run alone.
C11_ConcurrentCallsIndependent ==
    [][options' = options]_vars /\ []ParResults

\* Call 1 has run from entry to return while call 2 was between two of its stages:
\* call 1 decoded its body and succeeded, call 2 has bound its query and will fail in
\* the header stage.
C11_Witness ==
    /\ api = "Concurrent"
    /\ pc[1] = "done"
    /\ err[1] = NoErr
    /\ out[1][1] = StrV(MQ)
    /\ closed[1] = 1
    /\ pc[2] = "header"
    /\ out[2][1] = StrV(One)
    /\ RunAlone(options, fields, req[2]).err = ErrSyntax
    /\ options.bodyDecoders # <<>>

C15_FormFieldsBound ==
    ( /\ api = "Compose"
      /\ options.fns = DefaultBinding
      /\ Returned
      /\ req.method # MethodGet
      /\ ParseMediaType(ContentType(req)).mediatype \in {FormURLEncoded, MultipartFormData} ) =>
        /\ err = NoErr
        /\ \A i \in 1..Len(fields) :
              /\ fields[i].form # "" =>
                    out[i] = bind(fields[i].type, Zero(fields[i].type),
                                  <<req.body.form[fields[i].form]>>).val
              /\ fields[i].query # "" =>
                    out[i] = bind(fields[i].type, Zero(fields[i].type),
                                  QueryValues(req, fields[i].query)).val
              /\ (fields[i].form = "" /\ fields[i].query = "") =>
                    out[i] = Zero(fields[i].type)

(***************************************************************************)
(* Properties of the coercer on integer fields, under SpecInt.             *)
(***************************************************************************)
\* n modulo 2^w as an unsigned and as a two's complement number of w bits; the
\* numbers of the samples are within 32 bits.
Unsigned2w(n, w) == IF w >= 32 THEN n ELSE ((n % (2 ^ w)) + 2 ^ w) % (2 ^ w)
Signed2w(n, w) ==
    IF w >= 32 THEN n
    ELSE IF Unsigned2w(n, w) >= 2 ^ (w - 1) THEN Unsigned2w(n, w) - 2 ^ w
    ELSE Unsigned2w(n, w)

\* C16: binding one base-10 text to an integer field of w bits: the text of a number
\* n that fits 64 bits of the field's signedness is accepted and the field holds n
\* modulo 2^w (two's complement for a signed field), also when n is outside the
\* range of w bits; a text that fails the 64-bit parse (a negative number for an
\* unsigned field, no number, a number beyond 64 bits) gives a syntax or range error
\* and leaves the field as it was.
C16_IntegerNarrowing ==
    ( /\ BindEnded
      /\ Kind(BoundType) \in {"int", "uint"}
      /\ Len(BoundValues) = 1 ) =>
        /\ pc = "done"
        /\ \A n \in IntSamples :
              BoundValues[1] = FormatInt(n, 10) =>
                  /\ Kind(BoundType) = "int" =>
                        err = NoErr /\ out = <<IntV(Signed2w(n, Bits(BoundType)))>>
                  /\ (Kind(BoundType) = "uint" /\ n >= 0) =>
                        err = NoErr /\ out = <<UintV(Unsigned2w(n, Bits(BoundType)))>>
                  /\ (Kind(BoundType) = "uint" /\ n < 0) =>
                        err = ErrSyntax /\ out = entry
        /\ BoundValues[1] \in BadIntTexts =>
              err \in {ErrSyntax, ErrRange} /\ out = entry

\* An int16 field that held another value holds 4464 (70000 - 65536) after "70000".
C16_Witness ==
    /\ BindEnded
    /\ BoundType = IntT(16)
    /\ BoundValues = << <<"7", "0", "0", "0", "0">> >>
    /\ entry = <<Sample(BoundType)>>
    /\ out = <<IntV(4464)>>
    /\ err = NoErr

====
